---- MODULE Spec2Model ----
(***************************************************************************)
(* Restaurant reservation backend: the reservations and tables resources,  *)
(* their middleware chains (validation, then handler) and the persistence  *)
(* calls the handlers issue.  A request runs synchronously from one        *)
(* awaited persistence call to the next; other requests may run between    *)
(* two awaited calls of the same request.                                  *)
(***************************************************************************)
EXTENDS Integers, Sequences, FiniteSets, TLC

\* ------------------------------------------------------------------ bounds
MaxRes == 2         \* reservation rows the store may hold
MaxTables == 2      \* table rows the store may hold
MaxSize == 2        \* largest party size / table capacity a request carries
MaxInFlight == 2    \* requests that may be between two awaited calls at once

\* ------------------------------------------------------------------ values
\* SQL NULL / a missing reservation_id (JavaScript undefined, null and 0 are
\* all falsy for `!reservation_id`; an absent column is stored as NULL).
Null == 0

\* The result of a query that matched no row (`.first()` gives undefined).
NoRow == [absent |-> TRUE]

\* A body field that is not present (JavaScript undefined).
Undefined == "undefined"

validStatuses == {"booked", "seated", "finished", "cancelled"}

\* JavaScript values of the `people` / `capacity` fields: a number or a
\* numeric string.
Num(n) == [t |-> "number", v |-> n]
Str(n) == [t |-> "string", v |-> n]

\* `!x` for such a value: the number 0 is falsy (as is a missing field), a
\* non-empty string is truthy.
Falsy(x) == x.t = "number" /\ x.v = 0

\* Calendar: a date is a day number whose remainder modulo 7 is the weekday
\* (0 is Sunday); a time of day HH:MM is the milliseconds after midnight; an
\* instant (a Date) is the milliseconds since the start of day 0.
Minutes(h, m) == (h * 60 + m) * 60000
DateTime(date, time) == date * 86400000 + time

\* Date.parse applied to a Date object: the Date is first converted to its
\* string form, which carries no milliseconds, and that string is parsed.
Date_parse(d) == (d \div 1000) * 1000

\* The three guest fields (first_name, last_name, mobile_number) are carried as
\* one field `contact`: TRUE when all three are present and non-empty.
\* A date or time field is undefined, a string of the wrong format, or a
\* well-formed value v.
Field(v) == [t |-> "ok", v |-> v]
Malformed == [t |-> "malformed", v |-> 0]
Missing == [t |-> "undefined", v |-> 0]

\* ------------------------------------------------------------------ state
VARIABLES
    reservations,   \* the `reservations` table: row i has reservation_id i
    tables,         \* the `tables` table: row i has table_id i
    slots           \* the requests being handled, each up to its response

vars == <<reservations, tables, slots>>

Slots == 1..MaxInFlight

\* ------------------------------------------------------- persistence layer
\* Every service function is a query against the store: it yields the store
\* after the query and the value its promise resolves to.

\* Variant: the lookup marks the reservation it finds as seated.
reservationService_read_marking(db, reservation_id) ==
    [db |-> IF reservation_id \in 1..Len(db)
            THEN [db EXCEPT ![reservation_id].status = "seated"] ELSE db,
     row |-> IF reservation_id \in 1..Len(db) THEN db[reservation_id] ELSE NoRow]

\* reservations.service read: where({reservation_id}).first()
reservationService_read(db, reservation_id) ==
    [db |-> db,
     row |-> IF reservation_id \in 1..Len(db) THEN db[reservation_id] ELSE NoRow]

\* reservations.service list: select("*").orderBy("reservation_id", "ASC")
reservationService_list(db) == db

\* Variant: the rows of the date come back in reservation_id order.
reservationService_searchByDate_byId(db, reservation_date) ==
    LET ids == {i \in 1..Len(db) : /\ db[i].reservation_date = reservation_date
                                   /\ db[i].status # "finished"}
    IN {rows \in [1..Cardinality(ids) -> {db[i] : i \in ids}] :
            \A j, k \in 1..Cardinality(ids) :
                j < k => rows[j].reservation_id < rows[k].reservation_id}

\* reservations.service searchByDate: where({reservation_date})
\* .whereNot({status: "finished"}).orderBy("reservation_time", "ASC").  Rows
\* of equal reservation_time come in an order the database chooses, so the
\* query has a set of possible results.
reservationService_searchByDate(db, reservation_date) ==
    LET ids == {i \in 1..Len(db) : /\ db[i].reservation_date = reservation_date
                                   /\ db[i].status # "finished"}
    IN {rows \in [1..Cardinality(ids) -> {db[i] : i \in ids}] :
            /\ \A j, k \in 1..Cardinality(ids) : j # k => rows[j] # rows[k]
            /\ \A j, k \in 1..Cardinality(ids) :
                  j < k => rows[j].reservation_time <= rows[k].reservation_time}

\* reservations.service create: insert(reservation).returning("*"), rows[0].
\* The column defaults give a row without status the status `booked` and set
\* created_at to the time of the insert, which is the moment of the request
\* (the clock does not advance while a request is handled).
reservationService_create(db, reservation, now) ==
    LET row == [reservation_id |-> Len(db) + 1,
                status |-> IF reservation.status = Undefined
                           THEN "booked" ELSE reservation.status,
                people |-> reservation.people.v,
                reservation_date |-> reservation.reservation_date.v,
                reservation_time |-> reservation.reservation_time.v,
                created_at |-> IF reservation.created_at.t = "undefined"
                               THEN now ELSE reservation.created_at.v]
    IN [db |-> Append(db, row), row |-> row]

\* reservations.service update: where({reservation_id}).update(reservation, "*")
\* sets every column the body carries.
reservationService_update(db, reservation_id, reservation) ==
    IF reservation_id \notin 1..Len(db) THEN [db |-> db, row |-> NoRow]
    ELSE LET row == [db[reservation_id] EXCEPT
                        !.reservation_id =
                            IF reservation.reservation_id = Null THEN @
                            ELSE reservation.reservation_id,
                        !.created_at =
                            IF reservation.created_at.t = "undefined" THEN @
                            ELSE reservation.created_at.v,
                        !.status = reservation.status,
                        !.people = reservation.people.v,
                        !.reservation_date = reservation.reservation_date.v,
                        !.reservation_time = reservation.reservation_time.v]
         IN [db |-> [db EXCEPT ![reservation_id] = row], row |-> row]

\* Variant: the status update is not applied; the row comes back as stored.
reservationService_updateStatus_lost(db, reservation_id, status) ==
    IF reservation_id \notin 1..Len(db) THEN [db |-> db, row |-> NoRow]
    ELSE [db |-> db, row |-> db[reservation_id]]

\* reservations.service updateStatus: where({reservation_id}).update({status}, "*")
reservationService_updateStatus(db, reservation_id, status) ==
    IF reservation_id \notin 1..Len(db) THEN [db |-> db, row |-> NoRow]
    ELSE LET row == [db[reservation_id] EXCEPT !.status = status]
         IN [db |-> [db EXCEPT ![reservation_id] = row], row |-> row]

\* tables.service read: where({table_id}).first()
service_read(db, table_id) ==
    [db |-> db, row |-> IF table_id \in 1..Len(db) THEN db[table_id] ELSE NoRow]

\* tables.service create: insert(table).returning("*"), rows[0]
service_create(db, table) ==
    LET row == [table_id |-> Len(db) + 1,
                capacity |-> table.capacity.v,
                occupied |-> table.occupied,
                reservation_id |-> table.reservation_id]
    IN [db |-> Append(db, row), row |-> row]

\* Variant: the update only applies to a table that is not occupied.
service_assignReservation_guarded(db, reservation_id, table_id) ==
    IF table_id \notin 1..Len(db) \/ db[table_id].occupied
    THEN [db |-> db, row |-> NoRow]
    ELSE LET row == [db[table_id] EXCEPT !.occupied = TRUE,
                                         !.reservation_id = reservation_id]
         IN [db |-> [db EXCEPT ![table_id] = row], row |-> row]

\* tables.service assignReservation: update({occupied: true, reservation_id}, "*")
service_assignReservation(db, reservation_id, table_id) ==
    IF table_id \notin 1..Len(db) THEN [db |-> db, row |-> NoRow]
    ELSE LET row == [db[table_id] EXCEPT !.occupied = TRUE,
                                         !.reservation_id = reservation_id]
         IN [db |-> [db EXCEPT ![table_id] = row], row |-> row]

\* Variant: the update clears `occupied` and keeps the foreign key.
service_deleteReservation_keepsKey(db, table_id) ==
    IF table_id \notin 1..Len(db) THEN [db |-> db, row |-> NoRow]
    ELSE [db |-> [db EXCEPT ![table_id].occupied = FALSE], row |-> NoRow]

\* tables.service deleteReservation: update({occupied: false, reservation_id: null})
\* without a returning clause: the promise resolves to rows[0] of a row count,
\* which is undefined.
service_deleteReservation(db, table_id) ==
    IF table_id \notin 1..Len(db) THEN [db |-> db, row |-> NoRow]
    ELSE LET row == [db[table_id] EXCEPT !.occupied = FALSE,
                                         !.reservation_id = Null]
         IN [db |-> [db EXCEPT ![table_id] = row], row |-> NoRow]

\* ------------------------------------------------------------- middleware
\* A synchronous middleware either calls next() or next({status, message}).
Pass == [status |-> 0, message |-> "next"]
Error(status, message) == [status |-> status, message |-> message]

\* --- reservations.controller

R_bodyHasAllRequiredFields(data) ==
    IF ~data.contact THEN Error(400, "requires a contact field")
    ELSE IF data.reservation_date.t = "undefined"
        THEN Error(400, "requires a reservation_date field")
    ELSE IF data.reservation_time.t = "undefined"
        THEN Error(400, "requires a reservation_time field")
    ELSE IF Falsy(data.people) THEN Error(400, "requires a people field")
    ELSE IF data.reservation_date.t = "malformed"
        THEN Error(400, "reservation_date must be YYYY-MM-DD")
    ELSE IF data.reservation_time.t = "malformed"
        THEN Error(400, "reservation_time must be HH:MM")
    ELSE IF data.people.t # "number" THEN Error(400, "people must be a number")
    ELSE Pass

\* Variant: the status of a new reservation is not looked at.
validateNewStatus_any(newReservation) == Pass

\* The only query the requests carry besides `date` is one outside
\* VALID_PROPERTIES (`invalid`).
validateReqQueries(query) ==
    IF query.invalid THEN Error(400, "invalid queries") ELSE Pass

validateNewStatus(newReservation) ==
    LET status == IF newReservation.status = Undefined
                  THEN "booked" ELSE newReservation.status
    IN IF status # "booked" THEN Error(400, "status must be booked on creation")
       ELSE Pass

R_bodyHasNoInvalidFields(newReservation) ==
    IF newReservation.extra THEN Error(400, "invalid fields") ELSE Pass

\* Variant: a reservation for the very moment of the request is let through.
validateDateTime_lenient(newReservation, today) ==
    LET reservation_date == newReservation.reservation_date.v
        reservation_time == newReservation.reservation_time.v
        date == DateTime(reservation_date, reservation_time)
    IN IF Date_parse(date) < Date_parse(today)
           THEN Error(400, "date or time of the past")
       ELSE IF (reservation_date % 7) \in {2} THEN Error(400, "closed day")
       ELSE IF \/ reservation_time < Minutes(10, 30)
               \/ reservation_time > Minutes(21, 30)
           THEN Error(400, "outside reservation hours")
       ELSE Pass

closedDays == {2}
startTime == Minutes(10, 30)
closeTime == Minutes(21, 30)

validateDateTime(newReservation, today) ==
    LET reservation_date == newReservation.reservation_date.v
        reservation_time == newReservation.reservation_time.v
        date == DateTime(reservation_date, reservation_time)
        startDateTime == DateTime(reservation_date, startTime)
        closeDateTime == DateTime(reservation_date, closeTime)
    IN IF Date_parse(date) <= Date_parse(today)
           THEN Error(400, "date or time of the past")
       ELSE IF (reservation_date % 7) \in closedDays THEN Error(400, "closed day")
       ELSE IF \/ Date_parse(date) < Date_parse(startDateTime)
               \/ Date_parse(date) > Date_parse(closeDateTime)
           THEN Error(400, "outside reservation hours")
       ELSE Pass

validateUpdateStatus(status, reservation) ==
    IF status = Undefined THEN Error(400, "requires a status field")
    ELSE IF status \notin validStatuses THEN Error(400, "invalid status")
    ELSE IF reservation.status = "finished" \/ reservation.status = "cancelled"
        THEN Error(400, "archived reservation cannot be updated")
    ELSE IF reservation.status = "seated" /\ status # "finished"
        THEN Error(400, "seated can only become finished")
    ELSE Pass

\* Variant: the body's reservation_id and created_at are not compared.
validateReservationUpdate_open(reservation, newReservation) == Pass

validateReservationUpdate(reservation, newReservation) ==
    LET id == reservation.reservation_id
        created == reservation.created_at
        newId == IF newReservation.reservation_id = Null
                 THEN id ELSE newReservation.reservation_id
        newCreated == IF newReservation.created_at.t = "undefined"
                      THEN created ELSE newReservation.created_at.v
    IN IF id # newId THEN Error(400, "cannot change reservation_id")
       ELSE IF created # newCreated THEN Error(400, "cannot change created_at")
       ELSE Pass

\* --- tables.controller

T_bodyHasAllRequiredFields(data) ==
    IF data.table_name = 0 THEN Error(400, "requires a table_name field")
    ELSE IF Falsy(data.capacity) THEN Error(400, "requires a capacity field")
    ELSE IF data.table_name < 2 THEN Error(400, "table_name too short")
    ELSE IF data.capacity.t # "number" \/ data.capacity.v < 1
        THEN Error(400, "capacity must be a number 1 or greater")
    ELSE Pass

\* The only key outside VALID_PROPERTIES the bodies carry is `occupied`.
T_bodyHasNoInvalidFields(table) ==
    IF table.occupied # Undefined THEN Error(400, "invalid fields") ELSE Pass

\* Variant: `occupied` is left at the column default.
DeriveOccupied_default(table) ==
    [capacity |-> table.capacity,
     reservation_id |-> table.reservation_id,
     occupied |-> FALSE]

\* bodyHasNoInvalidFields, line 58: table.occupied = !!table.reservation_id
DeriveOccupied(table) ==
    [capacity |-> table.capacity,
     reservation_id |-> table.reservation_id,
     occupied |-> table.reservation_id # Null]

hasReservationId(data) ==
    IF data.reservation_id = Null THEN Error(400, "requires a reservation_id")
    ELSE Pass

\* Variant: a party as large as the table is turned away.
hasAppropriateSeating_strict(reservation, table) ==
    IF table.occupied THEN Error(400, "table is occupied")
    ELSE IF reservation.people >= table.capacity THEN Error(400, "capacity")
    ELSE Pass

hasAppropriateSeating(reservation, table) ==
    IF table.occupied THEN Error(400, "table is occupied")
    ELSE IF reservation.people > table.capacity THEN Error(400, "capacity")
    ELSE Pass

tableIsOccupied(table) ==
    IF ~table.occupied THEN Error(400, "table is not occupied") ELSE Pass

isReservationSeatedAlready(reservation) ==
    IF reservation.status = "seated" THEN Error(400, "already seated")
    ELSE IF reservation.status = "finished" THEN Error(400, "finished")
    ELSE Pass

\* ------------------------------------------------------- middleware chains
\* module.exports of the two controllers: the middleware of each route, in
\* order.  The last element is the handler.
R_list == <<"validateReqQueries", "R.list">>
R_create ==
    <<"R.bodyHasAllRequiredFields", "R.bodyHasNoInvalidFields",
      "validateNewStatus", "validateDateTime", "R.create">>
\* Variant: the full update does not run the status check.
R_update_noStatusCheck ==
    <<"reservationExists", "R.bodyHasAllRequiredFields",
      "R.bodyHasNoInvalidFields", "validateDateTime",
      "validateReservationUpdate", "R.update">>

R_update ==
    <<"reservationExists", "R.bodyHasAllRequiredFields",
      "R.bodyHasNoInvalidFields", "validateDateTime",
      "validateReservationUpdate", "validateUpdateStatus", "R.update">>
R_updateStatus ==
    <<"reservationExists", "validateUpdateStatus", "R.updateStatus">>
T_create ==
    <<"T.bodyHasAllRequiredFields", "T.bodyHasNoInvalidFields",
      "isValidReservation", "T.create">>
\* Variant: the reservation's status is checked before the table's seating.
T_assignReservation_statusFirst ==
    <<"tableExists", "hasReservationId", "isValidReservation",
      "isReservationSeatedAlready", "hasAppropriateSeating",
      "T.assignReservation">>

T_assignReservation ==
    <<"tableExists", "hasReservationId", "isValidReservation",
      "hasAppropriateSeating", "isReservationSeatedAlready",
      "T.assignReservation">>
T_delete ==
    <<"tableExists", "tableIsOccupied", "T.deleteReservation">>

Chain(kind) ==
    CASE kind = "R.create" -> R_create
      [] kind = "R.list" -> R_list
      [] kind = "R.update" -> R_update
      [] kind = "R.updateStatus" -> R_updateStatus
      [] kind = "T.create" -> T_create
      [] kind = "T.assignReservation" -> T_assignReservation
      [] kind = "T.delete" -> T_delete

\* No response yet.
NoResponse == [status |-> 0, message |-> "", data |-> NoRow]

\* A request: its route, its position in the chain (idx, and await within the
\* handler), the moment it arrived, req.params, req.body.data, res.locals,
\* whether it has issued a write that the store applied, and its response.
Request(kind, table_id, reservation_id, body, today) ==
    [kind |-> kind, idx |-> 1, await |-> 1, today |-> today,
     table_id |-> table_id, reservation_id |-> reservation_id, body |-> body,
     table |-> NoRow, reservation |-> NoRow, status |-> Undefined,
     wrote |-> FALSE, response |-> NoResponse]

Idle == Request("idle", Null, Null, NoRow, 0)

\* The middleware that await a persistence call before calling next() or
\* responding.  isValidReservation calls next() at once when the body has no
\* reservation_id.
Awaits(mw, c) ==
    \/ mw \in {"reservationExists", "tableExists", "R.list", "R.create", "R.update",
               "R.updateStatus", "T.create", "T.assignReservation",
               "T.deleteReservation"}
    \/ mw = "isValidReservation" /\ c.body.reservation_id # Null

\* What a synchronous middleware passes to next().
Check(mw, c, today) ==
    CASE mw = "R.bodyHasAllRequiredFields" -> R_bodyHasAllRequiredFields(c.body)
      [] mw = "R.bodyHasNoInvalidFields" -> R_bodyHasNoInvalidFields(c.body)
      [] mw = "validateReqQueries" -> validateReqQueries(c.body)
      [] mw = "validateNewStatus" -> validateNewStatus(c.body)
      [] mw = "validateDateTime" -> validateDateTime(c.body, today)
      [] mw = "validateReservationUpdate" ->
            validateReservationUpdate(c.reservation, c.body)
      [] mw = "validateUpdateStatus" ->
            validateUpdateStatus(c.body.status, c.reservation)
      [] mw = "T.bodyHasAllRequiredFields" -> T_bodyHasAllRequiredFields(c.body)
      [] mw = "T.bodyHasNoInvalidFields" -> T_bodyHasNoInvalidFields(c.body)
      [] mw = "hasReservationId" -> hasReservationId(c.body)
      [] mw = "isValidReservation" -> Pass
      [] mw = "hasAppropriateSeating" ->
            hasAppropriateSeating(c.reservation, c.table)
      [] mw = "tableIsOccupied" -> tableIsOccupied(c.table)
      [] mw = "isReservationSeatedAlready" ->
            isReservationSeatedAlready(c.reservation)

\* What a synchronous middleware that called next() left in res.locals.
Locals(mw, c) ==
    CASE mw = "validateUpdateStatus" -> [c EXCEPT !.status = c.body.status]
      [] mw = "T.bodyHasNoInvalidFields" ->
            [c EXCEPT !.table = DeriveOccupied(c.body)]
      [] OTHER -> c

\* Express runs the chain from c.idx until a middleware awaits a persistence
\* call (the request is parked there) or passes an error to next().
RECURSIVE RunChain(_, _)
RunChain(c, today) ==
    LET mw == Chain(c.kind)[c.idx]
        e == Check(mw, c, today)
    IN IF Awaits(mw, c) THEN [c |-> c, err |-> Pass]
       ELSE IF e # Pass THEN [c |-> c, err |-> e]
       ELSE RunChain([Locals(mw, c) EXCEPT !.idx = c.idx + 1], today)

\* ------------------------------------------------------------------ inputs
\* The request moments and the bodies the clients send.
NowVals == {DateTime(1, 0), DateTime(4, 0)}
PeopleInputs == {Num(0), Str(1)} \cup {Num(n) : n \in 1..MaxSize}
StatusInputs == validStatuses \cup {Undefined, "unknown"}

ReservationBody(contact, date, time, people, status, id, created, extra) ==
    [contact |-> contact, reservation_date |-> date, reservation_time |-> time,
     people |-> people, status |-> status, reservation_id |-> id,
     created_at |-> created, extra |-> extra]

\* Well-formed bodies for an open day (day 3, a Wednesday, at 10:30): one with
\* each status value, each `people` value, each reservation_id and each
\* created_at; and bodies with one defective field each.
ReservationBodies ==
    {ReservationBody(TRUE, Field(3), Field(startTime), Num(1), st, Null, Missing, FALSE) :
        st \in StatusInputs}
    \cup
    {ReservationBody(TRUE, Field(3), Field(startTime), p, "booked", Null, Missing, FALSE) :
        p \in PeopleInputs}
    \cup
    {ReservationBody(TRUE, Field(3), Field(startTime), Num(1), "booked", id, Missing, FALSE) :
        id \in 0..MaxRes}
    \cup
    {ReservationBody(TRUE, Field(3), Field(startTime), Num(1), "booked", Null, cr, FALSE) :
        cr \in {Field(DateTime(1, 0)), Field(DateTime(0, 0))}}
    \cup
    {ReservationBody(FALSE, Field(3), Field(startTime), Num(1), "booked", Null, Missing, FALSE),
     ReservationBody(TRUE, Missing, Field(startTime), Num(1), "booked", Null, Missing, FALSE),
     ReservationBody(TRUE, Field(3), Malformed, Num(1), "booked", Null, Missing, FALSE),
     ReservationBody(TRUE, Field(2), Field(startTime), Num(1), "booked", Null, Missing, FALSE),
     ReservationBody(TRUE, Field(3), Field(Minutes(21, 31)), Num(1), "booked", Null, Missing, FALSE),
     ReservationBody(TRUE, Field(3), Field(startTime), Num(1), "booked", Null, Missing, TRUE)}

\* A new reservation carries neither reservation_id nor created_at.
NewReservationBodies ==
    {b \in ReservationBodies : b.reservation_id = Null /\ b.created_at = Missing}

TableBodies ==
    [table_name : 0..2,
     capacity : {Num(0), Str(1)} \cup {Num(n) : n \in 1..MaxSize},
     reservation_id : 0..MaxRes,
     occupied : {Undefined, "true", "false"}]

\* -------------------------------------------------------------- responses
InFlight == {s \in Slots : slots[s].kind # "idle"}

\* The request in slot s ends with a response (res.json or the error handler).
Respond(s, c, status, message, data) ==
    slots' = [slots EXCEPT ![s] =
                [c EXCEPT !.response =
                    [status |-> status, message |-> message, data |-> data]]]

\* The request in slot s goes on from context c: the chain runs up to the next
\* awaited call, or to the first error.
Continue(s, c, today) ==
    LET r == RunChain(c, today)
    IN IF r.err # Pass
       THEN Respond(s, r.c, r.err.status, r.err.message, NoRow)
       ELSE slots' = [slots EXCEPT ![s] = r.c]

\* Whether the request has changed the store, now that query q ran on db.
Wrote(c, db, q) == c.wrote \/ q.db # db

\* The request in slot s is parked at middleware mw, at its k-th awaited call.
Parked(s, mw, k) ==
    /\ slots[s].kind # "idle"
    /\ slots[s].response = NoResponse
    /\ Chain(slots[s].kind)[slots[s].idx] = mw
    /\ slots[s].await = k

\* A request arrives while fewer than lim requests are being handled.
Arrive(c, today, lim) ==
    /\ Cardinality(InFlight) < lim
    /\ LET s == CHOOSE s \in Slots :
                    slots[s].kind = "idle"
                    /\ \A t \in Slots : t < s => slots[t].kind # "idle"
       IN Continue(s, c, today)
    /\ UNCHANGED <<reservations, tables>>

Creating(kind) == Cardinality({s \in Slots : slots[s].kind = kind})

\* ---------------------------------------------------------------- arrivals
\* One action per route: the request arrives and its chain runs up to the
\* first awaited call.

PostReservation(lim) ==
    \E body \in NewReservationBodies, today \in NowVals :
        /\ Len(reservations) + Creating("R.create") < MaxRes
        /\ Arrive(Request("R.create", Null, Null, body, today), today, lim)

\* Create requests for the days around a closed day and the times around the
\* two ends of the reservation window, arriving at moments before, at and
\* after the date-time asked for (also within the same second).
HoursDates == {2, 3}
HoursTimes ==
    {Minutes(10, 29), Minutes(10, 30), Minutes(21, 30), Minutes(21, 30) + 1000,
     Minutes(21, 31)}
HoursNow ==
    {DateTime(1, 0), DateTime(2, Minutes(10, 30)),
     DateTime(3, Minutes(10, 30)) - 500, DateTime(3, Minutes(10, 30)),
     DateTime(3, Minutes(10, 30)) + 500, DateTime(3, Minutes(21, 30))}

PostReservationAt(lim) ==
    \E date \in HoursDates, time \in HoursTimes, today \in HoursNow :
        /\ Len(reservations) + Creating("R.create") < MaxRes
        /\ Arrive(Request("R.create", Null, Null,
                          ReservationBody(TRUE, Field(date), Field(time), Num(1),
                                          Undefined, Null, Missing, FALSE),
                          today), today, lim)

\* Create and full-update requests over the party sizes a body may carry,
\* negative numbers included.
PartyInputs == PeopleInputs \cup {Num(0 - n) : n \in 1..MaxSize}

PartyBodies ==
    {ReservationBody(TRUE, Field(3), Field(startTime), p, "booked", Null,
                     Missing, FALSE) : p \in PartyInputs}

PostReservationFor(lim) ==
    \E body \in PartyBodies, today \in NowVals :
        /\ Len(reservations) + Creating("R.create") < MaxRes
        /\ Arrive(Request("R.create", Null, Null, body, today), today, lim)

PutReservationFor(lim) ==
    \E id \in 1..MaxRes, body \in PartyBodies :
        Arrive(Request("R.update", Null, id, body, 0), 0, lim)

\* Create requests for two open days and the two ends of the window, and
\* list requests with and without a `date` query.
ListDates == {3, 4}
ListTimes == {startTime, closeTime}

PostReservationOn(lim) ==
    \E date \in ListDates, time \in ListTimes :
        /\ Len(reservations) + Creating("R.create") < MaxRes
        /\ Arrive(Request("R.create", Null, Null,
                          ReservationBody(TRUE, Field(date), Field(time), Num(1),
                                          Undefined, Null, Missing, FALSE),
                          DateTime(1, 0)), DateTime(1, 0), lim)

GetReservations(lim) ==
    \E date \in {Missing} \cup {Field(d) : d \in ListDates}, invalid \in BOOLEAN :
        Arrive(Request("R.list", Null, Null,
                       [date |-> date, invalid |-> invalid], 0), 0, lim)

PutReservation(lim) ==
    \E id \in 1..MaxRes, body \in ReservationBodies :
        Arrive(Request("R.update", Null, id, body, 0), 0, lim)

PutReservationStatus(lim) ==
    \E id \in 1..MaxRes, status \in StatusInputs :
        Arrive(Request("R.updateStatus", Null, id, [status |-> status], 0), 0, lim)

PostTable(lim) ==
    \E body \in TableBodies :
        /\ Len(tables) + Creating("T.create") < MaxTables
        /\ Arrive(Request("T.create", Null, Null, body, 0), 0, lim)

PutTableSeat(lim) ==
    \E table_id \in 1..MaxTables, reservation_id \in 0..MaxRes :
        Arrive(Request("T.assignReservation", table_id, Null,
                       [reservation_id |-> reservation_id], 0), 0, lim)

DeleteTableSeat(lim) ==
    \E table_id \in 1..MaxTables :
        Arrive(Request("T.delete", table_id, Null, NoRow, 0), 0, lim)

\* ------------------------------------------------- awaited calls resolving
\* One action per awaited persistence call: the store applies the query, the
\* promise resolves and the request runs on to its next awaited call.

\* reservations.controller reservationExists
ReservationExists(s) ==
    /\ Parked(s, "reservationExists", 1)
    /\ \E today \in NowVals :
        LET c == slots[s]
            q == reservationService_read(reservations, c.reservation_id)
        IN /\ reservations' = q.db
           /\ UNCHANGED tables
           /\ IF q.row = NoRow
              THEN Respond(s, [c EXCEPT !.wrote = Wrote(c, reservations, q)],
                           404, "Reservation cannot be found", NoRow)
              ELSE Continue(s, [c EXCEPT !.reservation = q.row,
                                         !.wrote = Wrote(c, reservations, q),
                                         !.idx = c.idx + 1], today)

\* reservations.controller list
ListReservations(s) ==
    /\ Parked(s, "R.list", 1)
    /\ LET c == slots[s]
           reservation_date == c.body.date
       IN \E data \in IF reservation_date.t # "undefined"
                       THEN reservationService_searchByDate(reservations,
                                                            reservation_date.v)
                       ELSE {reservationService_list(reservations)} :
            Respond(s, c, 200, "ok", [rows |-> data])
    /\ UNCHANGED <<reservations, tables>>

\* reservations.controller create
CreateReservation(s) ==
    /\ Parked(s, "R.create", 1)
    /\ LET c == slots[s]
           q == reservationService_create(reservations, c.body, c.today)
       IN /\ reservations' = q.db
          /\ UNCHANGED tables
          /\ Respond(s, [c EXCEPT !.wrote = Wrote(c, reservations, q),
                                  !.reservation_id = q.row.reservation_id],
                     201, "created", q.row)

\* reservations.controller update
UpdateReservation(s) ==
    /\ Parked(s, "R.update", 1)
    /\ LET c == slots[s]
           q == reservationService_update(reservations,
                    c.reservation.reservation_id, c.body)
       IN /\ reservations' = q.db
          /\ UNCHANGED tables
          /\ Respond(s, [c EXCEPT !.wrote = Wrote(c, reservations, q)],
                     200, "ok", q.row)

\* reservations.controller updateStatus
UpdateStatus(s) ==
    /\ Parked(s, "R.updateStatus", 1)
    /\ LET c == slots[s]
           q == reservationService_updateStatus(reservations,
                    c.reservation.reservation_id, c.status)
       IN /\ reservations' = q.db
          /\ UNCHANGED tables
          /\ Respond(s, [c EXCEPT !.wrote = Wrote(c, reservations, q)],
                     200, "ok", q.row)

\* tables.controller tableExists
TableExists(s) ==
    /\ Parked(s, "tableExists", 1)
    /\ LET c == slots[s]
           q == service_read(tables, c.table_id)
       IN /\ tables' = q.db
          /\ UNCHANGED reservations
          /\ IF q.row = NoRow
             THEN Respond(s, [c EXCEPT !.wrote = Wrote(c, tables, q)],
                          404, "Table cannot be found", NoRow)
             ELSE Continue(s, [c EXCEPT !.table = q.row,
                                        !.wrote = Wrote(c, tables, q),
                                        !.idx = c.idx + 1], 0)

\* tables.controller isValidReservation
IsValidReservation(s) ==
    /\ Parked(s, "isValidReservation", 1)
    /\ LET c == slots[s]
           q == reservationService_read(reservations, c.body.reservation_id)
       IN /\ reservations' = q.db
          /\ UNCHANGED tables
          /\ IF q.row = NoRow
             THEN Respond(s, [c EXCEPT !.wrote = Wrote(c, reservations, q)],
                          404, "Reservation cannot be found", NoRow)
             ELSE Continue(s, [c EXCEPT !.reservation = q.row,
                                        !.wrote = Wrote(c, reservations, q),
                                        !.idx = c.idx + 1], 0)

\* tables.controller create
CreateTable(s) ==
    /\ Parked(s, "T.create", 1)
    /\ LET c == slots[s]
           q == service_create(tables, c.table)
       IN /\ tables' = q.db
          /\ UNCHANGED reservations
          /\ Respond(s, [c EXCEPT !.wrote = Wrote(c, tables, q),
                                  !.table_id = q.row.table_id],
                     201, "created", q.row)

\* tables.controller assignReservation, first await
AssignReservation_updateStatus(s) ==
    /\ Parked(s, "T.assignReservation", 1)
    /\ LET c == slots[s]
           q == reservationService_updateStatus(reservations,
                    c.reservation.reservation_id, "seated")
       IN /\ reservations' = q.db
          /\ slots' = [slots EXCEPT ![s] =
                        [c EXCEPT !.await = 2,
                                  !.wrote = Wrote(c, reservations, q)]]
          /\ UNCHANGED tables

\* tables.controller assignReservation, second await
AssignReservation_assign(s) ==
    /\ Parked(s, "T.assignReservation", 2)
    /\ LET c == slots[s]
           q == service_assignReservation(tables,
                    c.reservation.reservation_id, c.table.table_id)
       IN /\ tables' = q.db
          /\ UNCHANGED reservations
          /\ Respond(s, [c EXCEPT !.wrote = Wrote(c, tables, q)],
                     200, "ok", q.row)

\* tables.controller deleteReservation, first await
DeleteReservation_updateStatus(s) ==
    /\ Parked(s, "T.deleteReservation", 1)
    /\ LET c == slots[s]
           q == reservationService_updateStatus(reservations,
                    c.table.reservation_id, "finished")
       IN /\ reservations' = q.db
          /\ slots' = [slots EXCEPT ![s] =
                        [c EXCEPT !.await = 2,
                                  !.wrote = Wrote(c, reservations, q)]]
          /\ UNCHANGED tables

\* tables.controller deleteReservation, second await
DeleteReservation_clear(s) ==
    /\ Parked(s, "T.deleteReservation", 2)
    /\ LET c == slots[s]
           q == service_deleteReservation(tables, c.table.table_id)
       IN /\ tables' = q.db
          /\ UNCHANGED reservations
          /\ Respond(s, [c EXCEPT !.wrote = Wrote(c, tables, q)],
                     200, "ok", q.row)

\* The awaited call of the request in slot s rejects (the store applied
\* nothing of it): the error handler answers with an internal error.
PersistenceFailure(s) ==
    /\ slots[s].kind # "idle"
    /\ slots[s].response = NoResponse
    /\ Respond(s, slots[s], 500, "internal error", NoRow)
    /\ UNCHANGED <<reservations, tables>>

\* The response of the request in slot s has been sent: the request is over.
Finish(s) ==
    /\ slots[s].kind # "idle"
    /\ slots[s].response # NoResponse
    /\ slots' = [slots EXCEPT ![s] = Idle]
    /\ UNCHANGED <<reservations, tables>>

\* ----------------------------------------------------------- specification
Init ==
    /\ reservations = <<>>
    /\ tables = <<>>
    /\ slots = [s \in Slots |-> Idle]

Resolve(s) ==
    \/ ReservationExists(s)
    \/ CreateReservation(s)
    \/ UpdateReservation(s)
    \/ UpdateStatus(s)
    \/ TableExists(s)
    \/ IsValidReservation(s)
    \/ CreateTable(s)
    \/ AssignReservation_updateStatus(s)
    \/ AssignReservation_assign(s)
    \/ DeleteReservation_updateStatus(s)
    \/ DeleteReservation_clear(s)
    \/ PersistenceFailure(s)
    \/ Finish(s)

Accept(lim) ==
    \/ PostReservation(lim)
    \/ PutReservation(lim)
    \/ PutReservationStatus(lim)
    \/ PostTable(lim)
    \/ PutTableSeat(lim)
    \/ DeleteTableSeat(lim)

\* Requests are handled one at a time: a request arrives when the previous
\* one has been answered.
Next == Accept(1) \/ \E s \in Slots : Resolve(s)

Spec == Init /\ [][Next]_vars

\* Create requests only, over the dates, times and request moments around the
\* limits of the business-hours rule.
HoursNext ==
    \/ PostReservationAt(1)
    \/ \E s \in Slots : CreateReservation(s) \/ Finish(s)

HoursSpec == Init /\ [][HoursNext]_vars

\* Create and full-update requests only, over the party sizes.
PartyNext ==
    \/ PostReservationFor(1)
    \/ PutReservationFor(1)
    \/ \E s \in Slots :
          \/ ReservationExists(s)
          \/ CreateReservation(s)
          \/ UpdateReservation(s)
          \/ Finish(s)

PartySpec == Init /\ [][PartyNext]_vars

\* Creating reservations, changing their status and listing them.
ListNext ==
    \/ PostReservationOn(1)
    \/ PutReservationStatus(1)
    \/ GetReservations(1)
    \/ \E s \in Slots :
          \/ ReservationExists(s)
          \/ CreateReservation(s)
          \/ UpdateStatus(s)
          \/ ListReservations(s)
          \/ Finish(s)

ListSpec == Init /\ [][ListNext]_vars

\* Seat requests and status updates handled concurrently, from a store that
\* holds two booked reservations and one free table large enough for either.
RaceReservation(id) ==
    [reservation_id |-> id, status |-> "booked", people |-> 1,
     reservation_date |-> 3, reservation_time |-> startTime,
     created_at |-> DateTime(1, 0)]

RaceInit ==
    /\ reservations = <<RaceReservation(1), RaceReservation(2)>>
    /\ tables = <<[table_id |-> 1, capacity |-> MaxSize, occupied |-> FALSE,
                   reservation_id |-> Null]>>
    /\ slots = [s \in Slots |-> Idle]

RaceNext ==
    \/ PutTableSeat(MaxInFlight)
    \/ PutReservationStatus(MaxInFlight)
    \/ \E s \in Slots :
          \/ TableExists(s)
          \/ IsValidReservation(s)
          \/ AssignReservation_updateStatus(s)
          \/ AssignReservation_assign(s)
          \/ ReservationExists(s)
          \/ UpdateStatus(s)
          \/ Finish(s)

RaceSpec == RaceInit /\ [][RaceNext]_vars

\* Seat requests only, handled concurrently, from the same store.
SeatRaceNext ==
    \/ PutTableSeat(MaxInFlight)
    \/ \E s \in Slots :
          \/ TableExists(s)
          \/ IsValidReservation(s)
          \/ AssignReservation_updateStatus(s)
          \/ AssignReservation_assign(s)
          \/ Finish(s)

SeatRaceSpec == RaceInit /\ [][SeatRaceNext]_vars

\* ------------------------------------------------------------------ claims
Responded(s) == slots[s].kind # "idle" /\ slots[s].response # NoResponse

\* The request in slot s, of route kind, has been answered, and not with the
\* internal error of a failed persistence call.
Answered(s, kind) ==
    /\ slots[s].kind = kind
    /\ Responded(s)
    /\ slots[s].response.status # 500

\* The transition table of the status state machine, as specified.
TransitionTable ==
    {<<"booked", "seated">>, <<"booked", "cancelled">>, <<"booked", "booked">>,
     <<"seated", "finished">>}

\* C1: a status-only update from stored status `from` to requested status
\* `to` is accepted and stores `to` exactly when (from, to) is in the
\* transition table; every other pair is rejected and leaves the status as
\* it was.
C1_TransitionTableTotal ==
    \A s \in Slots :
        (/\ Answered(s, "R.updateStatus")
         /\ slots[s].reservation # NoRow
         /\ slots[s].body.status \in validStatuses)
        => LET c == slots[s]
               from == c.reservation.status
               to == c.body.status
               stored == reservations[c.reservation_id].status
           IN IF <<from, to>> \in TransitionTable
              THEN c.response.status = 200 /\ stored = to
              ELSE c.response.status = 400 /\ stored = from

\* C2: once a reservation's stored status is `finished` or `cancelled`, no
\* step changes it.
C2_TerminalStatus ==
    [][\A r \in 1..Len(reservations) :
          reservations[r].status \in {"finished", "cancelled"}
          => reservations'[r].status = reservations[r].status]_vars

\* C3: a seat request for an existing table and an existing reservation
\* succeeds exactly when the table is not occupied, its capacity is at least
\* the party size and the reservation is neither seated nor finished; after a
\* success the reservation is seated and the table is occupied by it.
C3_SeatSucceedsExactlyWhen ==
    \A s \in Slots :
        (/\ Answered(s, "T.assignReservation")
         /\ slots[s].table # NoRow
         /\ slots[s].reservation # NoRow)
        => LET c == slots[s]
               rid == c.reservation.reservation_id
               fits == /\ ~c.table.occupied
                       /\ c.table.capacity >= c.reservation.people
                       /\ c.reservation.status \notin {"seated", "finished"}
           IN /\ c.response.status = 200 <=> fits
              /\ c.response.status # 200 => c.response.status = 400 /\ ~c.wrote
              /\ c.response.status = 200 =>
                    /\ reservations[rid].status = "seated"
                    /\ tables[c.table_id].occupied
                    /\ tables[c.table_id].reservation_id = rid

C3_Witness ==
    \E s \in Slots :
        /\ Answered(s, "T.assignReservation")
        /\ slots[s].response.status = 200
        /\ slots[s].table.capacity = slots[s].reservation.people
        /\ tables[slots[s].table_id].reservation_id = slots[s].body.reservation_id

\* C4: unseating an occupied table succeeds and leaves the table unoccupied
\* with no reservation_id and the reservation it referenced finished;
\* unseating a table that is not occupied is rejected and changes nothing.
C4_Unseat ==
    \A s \in Slots :
        (Answered(s, "T.delete") /\ slots[s].table # NoRow)
        => LET c == slots[s]
           IN IF c.table.occupied
              THEN /\ c.response.status = 200
                   /\ ~tables[c.table_id].occupied
                   /\ tables[c.table_id].reservation_id = Null
                   /\ reservations[c.table.reservation_id].status = "finished"
              ELSE /\ c.response.status = 400
                   /\ ~c.wrote
                   /\ tables[c.table_id] = c.table

C4_Witness ==
    \E s \in Slots :
        /\ Answered(s, "T.delete")
        /\ slots[s].response.status = 200
        /\ slots[s].table.occupied
        /\ ~tables[slots[s].table_id].occupied

\* C5: every stored table is occupied if and only if its reservation_id is
\* not null, and a request to create a table that carries `occupied` is
\* rejected.
C5_OccupiedIffReservation ==
    /\ \A t \in 1..Len(tables) :
          tables[t].occupied <=> tables[t].reservation_id # Null
    /\ \A s \in Slots :
          (/\ slots[s].kind = "T.create"
           /\ Responded(s)
           /\ slots[s].body.occupied # Undefined)
          => slots[s].response.status = 400 /\ ~slots[s].wrote

C5_Witness ==
    \E s \in Slots :
        /\ Answered(s, "T.create")
        /\ slots[s].response.status = 201
        /\ slots[s].body.reservation_id # Null
        /\ tables[slots[s].table_id].occupied

\* C6: no two distinct tables hold the same non-null reservation_id.
C6_AtMostOneTable ==
    \A t, u \in 1..Len(tables) :
        (t # u /\ tables[t].reservation_id # Null)
        => tables[t].reservation_id # tables[u].reservation_id

\* C7: when no request is in progress, a reservation is seated if and only
\* if some table's reservation_id refers to it.
C7_SeatedIffReferenced ==
    (\A s \in Slots : slots[s].kind = "idle" \/ Responded(s))
    => \A r \in 1..Len(reservations) :
          reservations[r].status = "seated"
          <=> \E t \in 1..Len(tables) : tables[t].reservation_id = r

\* C8: a seat or unseat that fails between its two writes leaves the two
\* records consistent: not a seated reservation with the table unoccupied,
\* not a finished reservation with the table still occupied by it.
C8_ConsistentAfterPartialFailure ==
    \A s \in Slots :
        (/\ Responded(s)
         /\ slots[s].response.status = 500
         /\ slots[s].await = 2)
        => LET c == slots[s]
               rid == IF c.kind = "T.delete" THEN c.table.reservation_id
                      ELSE c.reservation.reservation_id
               t == tables[c.table_id]
           IN /\ c.kind = "T.assignReservation"
                 => ~(reservations[rid].status = "seated" /\ ~t.occupied)
              /\ c.kind = "T.delete"
                 => ~(/\ reservations[rid].status = "finished"
                      /\ t.occupied
                      /\ t.reservation_id = rid)

\* C9: a request rejected by a check of its chain (a 400 or 404 answer) has
\* changed nothing in the store.
C9_RejectedWritesNothing ==
    \A s \in Slots :
        (Responded(s) /\ slots[s].response.status \in {400, 404})
        => ~slots[s].wrote

C9_Witness ==
    \E s \in Slots :
        /\ Answered(s, "T.assignReservation")
        /\ slots[s].response.message = "capacity"
        /\ slots[s].reservation.status = "booked"
        /\ reservations[slots[s].body.reservation_id].status = "booked"

\* C10: a create-reservation request is accepted only if its status is
\* absent or `booked`, any other status is rejected, and the reservation
\* created has status `booked`.
C10_CreatedBooked ==
    \A s \in Slots :
        (slots[s].kind = "R.create" /\ Responded(s))
        => LET c == slots[s]
           IN /\ c.response.status = 201
                 => /\ c.body.status \in {Undefined, "booked"}
                    /\ c.response.data.status = "booked"
              /\ c.body.status \notin {Undefined, "booked"}
                 => c.response.status = 400 /\ ~c.wrote

C10_Witness ==
    \E s \in Slots :
        /\ Answered(s, "R.create")
        /\ slots[s].response.status = 201
        /\ slots[s].body.status = Undefined
        /\ reservations[slots[s].reservation_id].status = "booked"

\* C11: a create-reservation request with otherwise valid fields is accepted
\* if and only if its date-time is strictly later than the moment of the
\* request, its weekday is not Tuesday and its time of day is from 10:30 to
\* 21:30, both ends included; otherwise it is rejected and stores nothing.
C11_BusinessHours ==
    \A s \in Slots :
        (/\ Answered(s, "R.create")
         /\ R_bodyHasAllRequiredFields(slots[s].body) = Pass
         /\ ~slots[s].body.extra
         /\ slots[s].body.status \in {Undefined, "booked"})
        => LET c == slots[s]
               day == c.body.reservation_date.v
               time == c.body.reservation_time.v
               open == /\ DateTime(day, time) > c.today
                       /\ day % 7 # 2
                       /\ time >= Minutes(10, 30)
                       /\ time <= Minutes(21, 30)
           IN IF open THEN c.response.status = 201
              ELSE c.response.status = 400 /\ ~c.wrote

C11_Witness ==
    \E s \in Slots :
        /\ Answered(s, "R.create")
        /\ slots[s].response.status = 400
        /\ slots[s].body.reservation_date.v % 7 # 2
        /\ slots[s].body.reservation_time.v = Minutes(21, 30)
        /\ DateTime(slots[s].body.reservation_date.v,
                    slots[s].body.reservation_time.v) = slots[s].today

\* C12: no step changes the reservation_id or the created_at of a stored
\* reservation; a full update whose body carries a reservation_id or a
\* created_at different from the stored one is rejected and writes nothing.
C12_IdAndCreatedAtImmutable ==
    /\ [](\A s \in Slots :
            (Answered(s, "R.update") /\ slots[s].reservation # NoRow)
            => LET c == slots[s]
                   differs ==
                       \/ /\ c.body.reservation_id # Null
                          /\ c.body.reservation_id # c.reservation.reservation_id
                       \/ /\ c.body.created_at.t # "undefined"
                          /\ c.body.created_at.v # c.reservation.created_at
               IN differs => c.response.status = 400 /\ ~c.wrote)
    /\ [][\A r \in 1..Len(reservations) :
              /\ reservations'[r].reservation_id = reservations[r].reservation_id
              /\ reservations'[r].created_at = reservations[r].created_at]_vars

C12_Witness ==
    \E s \in Slots :
        /\ Answered(s, "R.update")
        /\ slots[s].response.status = 200
        /\ slots[s].body.created_at.t = "ok"
        /\ slots[s].body.created_at.v = slots[s].reservation.created_at
        /\ reservations[slots[s].reservation_id].created_at
              = slots[s].body.created_at.v

\* C13: every stored reservation has a party size of at least 1, and a create
\* or full update whose `people` is zero, negative or a numeric string is
\* rejected and writes nothing.
C13_PeoplePositive ==
    /\ \A r \in 1..Len(reservations) : reservations[r].people >= 1
    /\ \A s \in Slots :
          (/\ slots[s].kind \in {"R.create", "R.update"}
           /\ Responded(s)
           /\ slots[s].kind = "R.update" => slots[s].reservation # NoRow
           /\ \/ slots[s].body.people.t # "number"
              \/ slots[s].body.people.v < 1)
          => slots[s].response.status = 400 /\ ~slots[s].wrote

\* C14: a list request with a `date` query D is answered with exactly the
\* stored reservations whose reservation_date is D and whose status is not
\* `finished`, each once, in ascending order of reservation_time.
C14_ListByDate ==
    \A s \in Slots :
        (/\ Answered(s, "R.list")
         /\ slots[s].body.date.t = "ok"
         /\ ~slots[s].body.invalid)
        => LET c == slots[s]
               rows == c.response.data.rows
               wanted == {reservations[r] : r \in
                            {r \in 1..Len(reservations) :
                                /\ reservations[r].reservation_date = c.body.date.v
                                /\ reservations[r].status # "finished"}}
           IN /\ c.response.status = 200
              /\ {rows[j] : j \in 1..Len(rows)} = wanted
              /\ Len(rows) = Cardinality(wanted)
              /\ \A j \in 1..Len(rows) - 1 :
                    rows[j].reservation_time <= rows[j + 1].reservation_time

C14_Witness ==
    \E s \in Slots :
        /\ Answered(s, "R.list")
        /\ slots[s].body.date.t = "ok"
        /\ slots[s].response.status = 200
        /\ Len(slots[s].response.data.rows) = 2
        /\ slots[s].response.data.rows[1].reservation_id = 2
        /\ slots[s].response.data.rows[1].status = "cancelled"
        /\ slots[s].response.data.rows[1].reservation_time
              < slots[s].response.data.rows[2].reservation_time

\* C15: a successful seat and a successful unseat both answer with the
\* updated table record as their data; after an unseat that record has
\* occupied = false and no reservation_id.
C15_WritesReturnRecord ==
    \A s \in Slots :
        (/\ slots[s].kind \in {"T.assignReservation", "T.delete"}
         /\ Responded(s)
         /\ slots[s].response.status = 200)
        => /\ slots[s].response.data = tables[slots[s].table_id]
           /\ slots[s].kind = "T.delete"
                 => /\ ~slots[s].response.data.occupied
                    /\ slots[s].response.data.reservation_id = Null

\* Two seat requests for the same table and two different reservations have
\* both been answered with success.
BothSeated(s, t) ==
    /\ s # t
    /\ Answered(s, "T.assignReservation") /\ slots[s].response.status = 200
    /\ Answered(t, "T.assignReservation") /\ slots[t].response.status = 200
    /\ slots[s].table_id = slots[t].table_id
    /\ slots[s].body.reservation_id # slots[t].body.reservation_id

\* C16: seat requests are not serialized.  When two seat requests for the
\* same table and two different reservations overlap, both pass the occupied
\* check on a table they both read unoccupied and both succeed, each answered
\* with the table record naming its own reservation; both reservations end
\* `seated` and the table references one of the two.
C16_SeatRace ==
    \A s, t \in Slots :
        BothSeated(s, t)
        => LET table == tables[slots[s].table_id]
           IN /\ ~slots[s].table.occupied /\ ~slots[t].table.occupied
              /\ slots[s].response.data =
                    [table EXCEPT !.reservation_id = slots[s].body.reservation_id]
              /\ reservations[slots[s].body.reservation_id].status = "seated"
              /\ reservations[slots[t].body.reservation_id].status = "seated"
              /\ table.occupied
              /\ table.reservation_id \in {slots[s].body.reservation_id,
                                           slots[t].body.reservation_id}

C16_Witness ==
    \E s, t \in Slots :
        /\ BothSeated(s, t)
        /\ reservations[slots[s].body.reservation_id].status = "seated"
        /\ reservations[slots[t].body.reservation_id].status = "seated"
        /\ tables[slots[s].table_id].reservation_id = slots[t].body.reservation_id
        /\ \A u \in 1..Len(tables) :
              tables[u].reservation_id # slots[s].body.reservation_id

\* A write of status `to` over the stored status `from` that the checks of
\* the status update or of the seat would have let through, had they read
\* `from`.
LegalWrite(from, to) ==
    \/ validateUpdateStatus(to, [status |-> from]) = Pass
    \/ to = "seated" /\ isReservationSeatedAlready([status |-> from]) = Pass

\* C19: under any interleaving, every step that writes a reservation's
\* status writes a status that is a legal transition from the status stored
\* at that moment.
C19_WritesLegalWhenApplied ==
    [][\A r \in 1..Len(reservations) :
          \A s \in Slots :
              (/\ slots'[s] # slots[s]
               /\ reservations' # reservations
               /\ slots[s].reservation # NoRow
               /\ slots[s].reservation.reservation_id = r)
              => LegalWrite(reservations[r].status, reservations'[r].status)]_vars

\* C17: in a seat and in an unseat the reservation's status is written
\* before the table.  With requests handled one at a time, whenever the table
\* of a seat request is no longer as the request read it, the request has
\* made its first write and the reservation is `seated`; whenever the table
\* of an unseat request is no longer as the request read it, the request has
\* made its first write and the reservation the table referenced is
\* `finished`.
C17_StatusWrittenFirst ==
    \A s \in Slots :
        (/\ slots[s].kind \in {"T.assignReservation", "T.delete"}
         /\ slots[s].table # NoRow
         /\ tables[slots[s].table_id] # slots[s].table)
        => LET c == slots[s]
           IN /\ c.await = 2
              /\ c.kind = "T.assignReservation"
                    => reservations[c.reservation.reservation_id].status = "seated"
              /\ c.kind = "T.delete"
                    => reservations[c.table.reservation_id].status = "finished"

C17_Witness ==
    \E s \in Slots :
        /\ slots[s].kind = "T.delete"
        /\ slots[s].table # NoRow
        /\ slots[s].await = 2
        /\ slots[s].response.status = 200
        /\ tables[slots[s].table_id] # slots[s].table
        /\ reservations[slots[s].table.reservation_id].status = "finished"

\* C18: the seat gate is sequential.  A rejected seat request is answered
\* with the error of the first violated condition in the order: table not
\* found, reservation_id missing, reservation not found, table occupied,
\* capacity too small, reservation seated, reservation finished; and the
\* request stops at the middleware that made that check.
C18_SeatGateOrder ==
    \A s \in Slots :
        Answered(s, "T.assignReservation")
        => LET c == slots[s]
               rid == c.body.reservation_id
               Rejected(status, message, idx) ==
                   /\ c.response.status = status
                   /\ c.response.message = message
                   /\ c.idx = idx
           IN IF c.table_id \notin 1..Len(tables)
                 THEN Rejected(404, "Table cannot be found", 1)
                      /\ c.reservation = NoRow
              ELSE IF rid = Null
                 THEN Rejected(400, "requires a reservation_id", 2)
                      /\ c.reservation = NoRow
              ELSE IF rid \notin 1..Len(reservations)
                 THEN Rejected(404, "Reservation cannot be found", 3)
              ELSE IF c.table.occupied
                 THEN Rejected(400, "table is occupied", 4)
              ELSE IF c.reservation.people > c.table.capacity
                 THEN Rejected(400, "capacity", 4)
              ELSE IF c.reservation.status = "seated"
                 THEN Rejected(400, "already seated", 5)
              ELSE IF c.reservation.status = "finished"
                 THEN Rejected(400, "finished", 5)
              ELSE c.response.status = 200

C18_Witness ==
    \E s \in Slots :
        /\ Answered(s, "T.assignReservation")
        /\ slots[s].response.message = "table is occupied"
        /\ slots[s].reservation.people > slots[s].table.capacity
        /\ slots[s].reservation.status = "seated"

\* C20: the step in which an unseat marks a reservation `finished` finds
\* that reservation `seated`.
C20_UnseatFinishesSeated ==
    [][\A s \in Slots :
          (/\ slots[s].kind = "T.delete"
           /\ slots[s].table # NoRow
           /\ slots[s].await = 1
           /\ slots'[s].kind = "T.delete"
           /\ slots'[s].await = 2)
          => reservations[slots[s].table.reservation_id].status = "seated"]_vars

\* C21: every occupied table has a capacity at least the party size of the
\* reservation it references.
C21_OccupiedTableFits ==
    \A t \in 1..Len(tables) :
        tables[t].occupied
        => tables[t].capacity >= reservations[tables[t].reservation_id].people

\* The transitions the status-only update lets through.
UpdateMachine ==
    {<<"booked", to>> : to \in validStatuses} \cup {<<"seated", "finished">>}

====
